---- MODULE Spec2Model ----
(***************************************************************************)
(* AutoHelper indexer: IndexService (modules/index/service.py), the        *)
(* index_runs tracker (db/repos/index_run_repo.py) and the reference       *)
(* resolver.  The database tables are the state; every commit of           *)
(* rebuild_index ends one atomic step of the calling thread, so two        *)
(* callers (the GUI starts each rebuild on a thread of its own) interleave *)
(* between commits.                                                        *)
(***************************************************************************)
EXTENDS Integers, Sequences, FiniteSets, TLC

\* ---------------------------------------------------------------- bounds
MaxRuns == 2        \* index_runs rows ever created
MaxFsOps == 1       \* filesystem changes made by the environment
MaxTime == 1        \* steps of the clock besides the one before each call
MaxFaults == 1      \* I/O faults during one call
MaxInvokes == 3     \* calls of RunnerService.invoke ever made

\* ------------------------------------------------------------- constants
HashSizeLimit == 1000000   \* service.py:335, files below it are always hashed
\* the clock counts half seconds: utcnow_iso() is finer than the whole seconds
\* SQLite's datetime() keeps
TicksPerSecond == 2
SecondsPerMinute == 60

Callers == {"t1", "t2"}
RootPaths == <<"/r1", "/r2">>          \* settings.get_allowed_roots()
WalkOrder == << <<"a">>, <<"b">>, <<".h">>, <<"sub", "c">> >>
Paths == {WalkOrder[i] : i \in 1..Len(WalkOrder)}
RootDirs == {RootPaths[i] : i \in 1..Len(RootPaths)}
\* the paths the environment uses under each root
PathsOf(r) == IF r = RootPaths[1] THEN Paths ELSE {WalkOrder[1]}
StaleMinutes == {0, 1}
\* the clock moves on by half a second or by a minute
TickSteps == {1, TicksPerSecond * SecondsPerMinute}

Null == 0           \* SQL NULL / Python None
NotYet == 0 - 1     \* history: the call has not ended
NoResult == [ref_id |-> Null, found |-> FALSE, strategy |-> "", path |-> ""]
NoSweep == [minutes |-> NotYet, count |-> 0]
NoFile == [ex |-> FALSE, size |-> 0, mtime |-> 0, content |-> 0, offline |-> FALSE]
\* the files the environment writes: a small file, the same with other bytes
\* under the same size and mtime, and a later file at the hash limit
DiskFiles ==
    {[ex |-> TRUE, size |-> 5, mtime |-> 1, content |-> 1, offline |-> FALSE],
     [ex |-> TRUE, size |-> 5, mtime |-> 1, content |-> 2, offline |-> FALSE],
     [ex |-> TRUE, size |-> HashSizeLimit, mtime |-> 2, content |-> 1, offline |-> FALSE]}
NoStats == [added |-> 0, updated |-> 0, removed |-> 0, errors |-> 0,
            total_size |-> 0]

RUNNING == "running"
COMPLETED == "completed"
FAILED == "failed"
CANCELLED == "cancelled"

VARIABLES
    now,          \* the wall clock, utcnow_iso()
    disk,         \* the filesystem: root path -> rel path -> file or NoFile
    fslog,        \* history: the filesystem changes made so far
    roots,        \* table roots: set of [root_id, path, enabled]
    files,        \* table files
    file_aliases, \* table file_aliases
    index_runs,   \* table index_runs: sequence, index = index_run_id
    nextFileId,   \* generate_file_id(): the next fresh id
    pc,           \* per caller: where its rebuild_index call stands
    run,          \* per caller: run_id of the call in progress
    arg,          \* per caller: [root, force] arguments of the call
    todo,         \* per caller: roots_to_scan still to scan
    total,        \* per caller: total_stats
    result,       \* per caller: how its last call ended
    hist,         \* history: per run, what the call saw and left
    lastDone,     \* history: the run that completed most recently, or Null
    refs,         \* table refs
    resolved,     \* what resolve() returned, when the last step was a resolve
    swept,        \* what cancel_stale() was called with and returned, when
                  \* the last step was a cancel_stale
    runner        \* the RunnerService singleton: its fields active,
                  \* current_runner and progress (the stage last reported),
                  \* and the history inv: the invoke() calls made so far,
                  \* where each stands and what it returned

vars == <<now, disk, fslog, roots, files, file_aliases, index_runs,
          nextFileId, pc, run, arg, todo, total, result, hist, lastDone,
          refs, resolved, swept, runner>>

\* ------------------------------------------------------------ pure parts
\* str(file_path.relative_to(root_path)): components joined by "/"
RECURSIVE RelStr(_)
RelStr(p) == IF Len(p) = 1 THEN p[1] ELSE p[1] \o "/" \o RelStr(Tail(p))

\* str(root_path / rel_path)
CanonicalPath(rpath, rel) == rpath \o "/" \o rel

\* name.startswith('.') for a directory of the walk or for a file name
HiddenNames == {".h"}
Hidden(p) == \E i \in 1..Len(p) : p[i] \in HiddenNames

\* hasher.hash_file: a digest of the bytes
HashOf(content) == 100 + content

\* the entries fs.walk yields for a root, in walk order, hidden ones dropped
Walked(rpath) ==
    SelectSeq(WalkOrder, LAMBDA p : disk[rpath][p].ex /\ ~Hidden(p))

\* ------------------------------------------------------- _upsert_file
\* a variant that hashes no file
ContentHashNever(stat, force) == Null

\* "hash if force_hash is True OR if it's small"
ContentHash(stat, force) ==
    IF force \/ stat.size < HashSizeLimit THEN HashOf(stat.content) ELSE Null

\* a variant that refreshes last_seen_at and nothing else
UpdateRowTouchOnly(f, stat, force, t) == [f EXCEPT !.last_seen_at = t]

\* UPDATE files SET size, mtime_ns, content_hash, last_seen_at, indexed_at
\* WHERE file_id = existing_id
UpdateRow(f, stat, force, t) ==
    [f EXCEPT !.size = stat.size, !.mtime_ns = stat.mtime,
              !.content_hash = ContentHash(stat, force),
              !.last_seen_at = t, !.indexed_at = t]

\* INSERT INTO files (...) with a freshly generated file_id, is_dir = 0
NewRow(fid, rid, rpath, rel, stat, force, t) ==
    [file_id |-> fid, root_id |-> rid,
     canonical_path |-> CanonicalPath(rpath, rel), rel_path |-> rel,
     size |-> stat.size, mtime_ns |-> stat.mtime,
     content_hash |-> ContentHash(stat, force),
     indexed_at |-> t, last_seen_at |-> t, is_dir |-> FALSE]

\* a variant whose insert branch writes no row
UpsertFileNoInsert(st, rid, rpath, rel, stat, existing_id, force, t) ==
    IF existing_id # Null
    THEN [st EXCEPT !.files =
            {IF f.file_id = existing_id THEN UpdateRow(f, stat, force, t) ELSE f
               : f \in st.files}]
    ELSE st

\* st = [files, nextFileId]; existing_id = Null means insert
UpsertFile(st, rid, rpath, rel, stat, existing_id, force, t) ==
    IF existing_id # Null
    THEN [st EXCEPT !.files =
            {IF f.file_id = existing_id THEN UpdateRow(f, stat, force, t) ELSE f
               : f \in st.files}]
    ELSE [st EXCEPT !.files = st.files \cup
                       {NewRow(st.nextFileId, rid, rpath, rel, stat, force, t)},
                    !.nextFileId = st.nextFileId + 1]

\* --------------------------------------------------------- _scan_root
\* a variant that takes every known file for changed
UnchangedNever(e, stat, force) == FALSE

\* existing["size"] == file_stat.size and existing["mtime_ns"] == file_stat.mtime_ns
Unchanged(e, stat, force) ==
    ~force /\ e.size = stat.size /\ e.mtime_ns = stat.mtime

\* a variant without the WHERE clause
TouchAll(fs, fid, t) == {[f EXCEPT !.last_seen_at = t] : f \in fs}

\* UPDATE files SET last_seen_at = ? WHERE file_id = ?
Touch(fs, fid, t) ==
    {IF f.file_id = fid THEN [f EXCEPT !.last_seen_at = t] ELSE f : f \in fs}

\* the body of the loop over the walked files, for one file p;
\* st = [files, nextFileId, seen, stats], existing the rows loaded before the walk
ScanEntry(st, existing, rid, rpath, p, force, t) ==
    LET rel == RelStr(p)
        stat == disk[rpath][p]
        hit == {e \in existing : e.rel_path = rel}
        s1 == [st EXCEPT !.seen = st.seen \cup {rel},
                         !.stats.total_size = st.stats.total_size + stat.size]
    IN IF hit # {}
       THEN LET e == CHOOSE x \in hit : TRUE
            IN IF Unchanged(e, stat, force)
               THEN [s1 EXCEPT !.files = Touch(s1.files, e.file_id, t)]
               ELSE LET u == UpsertFile([files |-> s1.files, nextFileId |-> s1.nextFileId],
                                        rid, rpath, rel, stat, e.file_id, force, t)
                    IN [s1 EXCEPT !.files = u.files, !.nextFileId = u.nextFileId,
                                  !.stats.updated = s1.stats.updated + 1]
       ELSE LET u == UpsertFile([files |-> s1.files, nextFileId |-> s1.nextFileId],
                                rid, rpath, rel, stat, Null, force, t)
            IN [s1 EXCEPT !.files = u.files, !.nextFileId = u.nextFileId,
                          !.stats.added = s1.stats.added + 1]

RECURSIVE WalkLoop(_, _, _, _, _, _, _)
WalkLoop(st, existing, rid, rpath, todoPaths, force, t) ==
    IF todoPaths = <<>> THEN st
    ELSE WalkLoop(ScanEntry(st, existing, rid, rpath, Head(todoPaths), force, t),
                  existing, rid, rpath, Tail(todoPaths), force, t)

\* a variant that deletes no row
HandleDeletionsNone(st, existing) == st

\* "Handle deletions": every loaded row whose rel_path was not seen is deleted
HandleDeletions(st, existing) ==
    LET gone == {e \in existing : e.rel_path \notin st.seen}
    IN [st EXCEPT !.files = {f \in st.files :
                               \A e \in gone : f.file_id # e.file_id},
                  !.stats.removed = st.stats.removed + Cardinality(gone)]

\* a variant that does not load the rows the root already has
ScanRootResultBlind(fs, nfid, rid, rpath, force, t) ==
    LET existing == {}
        st0 == [files |-> fs, nextFileId |-> nfid, seen |-> {}, stats |-> NoStats]
        st1 == WalkLoop(st0, existing, rid, rpath, Walked(rpath), force, t)
    IN HandleDeletions(st1, existing)

\* _scan_root(root_id, root_path, force_hash) on the tables fs and the disk
ScanRootResult(fs, nfid, rid, rpath, force, t) ==
    LET existing == {f \in fs : f.root_id = rid}
        st0 == [files |-> fs, nextFileId |-> nfid, seen |-> {}, stats |-> NoStats]
        st1 == WalkLoop(st0, existing, rid, rpath, Walked(rpath), force, t)
    IN HandleDeletions(st1, existing)

\* total_stats.x += stats.x
AddStats(a, b) ==
    [added |-> a.added + b.added, updated |-> a.updated + b.updated,
     removed |-> a.removed + b.removed, errors |-> a.errors + b.errors,
     total_size |-> a.total_size + b.total_size]

\* ---------------------------------------------------- _scan_root, faults
\* what can go wrong while a root is scanned: fs.stat or a statement of
\* _upsert_file raises for the file at path ("stat"), hasher.hash_file raises
\* for it ("read"), fs.walk or the commit after the walk raises when `at`
\* files have been handled ("walk")
Faults ==
    {[kind |-> k, path |-> p, at |-> 0] : k \in {"stat", "read"}, p \in Paths}
    \cup {[kind |-> "walk", path |-> WalkOrder[1], at |-> n] : n \in 0..Len(WalkOrder)}

\* the directory fs.walk yields the file p with
DirOf(p) == SubSeq(p, 1, Len(p) - 1)

\* whether the fault can happen in a scan of rpath that finds `existing`
CanHappen(fault, existing, rpath, force) ==
    LET w == Walked(rpath)
        stat == disk[rpath][fault.path]
        hit == {e \in existing : e.rel_path = RelStr(fault.path)}
    IN CASE fault.kind = "stat" ->
              \E i \in 1..Len(w) : w[i] = fault.path
         [] fault.kind = "read" ->
              /\ \E i \in 1..Len(w) : w[i] = fault.path
              /\ force \/ stat.size < HashSizeLimit
              /\ \A e \in hit : ~Unchanged(e, stat, force)
         [] fault.kind = "walk" ->
              /\ fault.at <= Len(w)
              /\ (0 < fault.at /\ fault.at < Len(w))
                    => DirOf(w[fault.at]) # DirOf(w[fault.at + 1])

\* lines 295-297: the per-file except branch; the path is in seen_rel_paths
\* by then
EntryError(st, p) ==
    [st EXCEPT !.seen = st.seen \cup {RelStr(p)},
               !.stats.errors = st.stats.errors + 1]

\* lines 336-339: "except Exception: pass" leaves content_hash None
HashError(st, rid, p) ==
    [st EXCEPT !.files =
        {IF f.root_id = rid /\ f.rel_path = RelStr(p)
         THEN [f EXCEPT !.content_hash = Null] ELSE f : f \in st.files}]

ScanEntryFaulty(st, existing, rid, rpath, p, force, t, fault) ==
    IF fault.kind = "stat" /\ fault.path = p
    THEN EntryError(st, p)
    ELSE IF fault.kind = "read" /\ fault.path = p
    THEN HashError(ScanEntry(st, existing, rid, rpath, p, force, t), rid, p)
    ELSE ScanEntry(st, existing, rid, rpath, p, force, t)

RECURSIVE WalkLoopFaulty(_, _, _, _, _, _, _, _)
WalkLoopFaulty(st, existing, rid, rpath, todoPaths, force, t, fault) ==
    IF todoPaths = <<>> THEN st
    ELSE WalkLoopFaulty(
             ScanEntryFaulty(st, existing, rid, rpath, Head(todoPaths), force, t, fault),
             existing, rid, rpath, Tail(todoPaths), force, t, fault)

\* a variant that prunes after a walk that raised
ScanRootFaultyPrunes(fs, nfid, rid, rpath, force, t, fault) ==
    LET existing == {f \in fs : f.root_id = rid}
        st0 == [files |-> fs, nextFileId |-> nfid, seen |-> {}, stats |-> NoStats]
        w == IF fault.kind = "walk" THEN SubSeq(Walked(rpath), 1, fault.at)
             ELSE Walked(rpath)
    IN HandleDeletions(
           WalkLoopFaulty(st0, existing, rid, rpath, w, force, t, fault),
           existing)

\* _scan_root under a fault; lines 312-314: when the walk raises, what was
\* written stays, nothing is deleted and one error is counted
ScanRootFaulty(fs, nfid, rid, rpath, force, t, fault) ==
    LET existing == {f \in fs : f.root_id = rid}
        st0 == [files |-> fs, nextFileId |-> nfid, seen |-> {}, stats |-> NoStats]
        w == Walked(rpath)
    IN IF fault.kind = "walk"
       THEN LET st1 == WalkLoop(st0, existing, rid, rpath,
                                SubSeq(w, 1, fault.at), force, t)
            IN [st1 EXCEPT !.stats.errors = st1.stats.errors + 1]
       ELSE HandleDeletions(
                WalkLoopFaulty(st0, existing, rid, rpath, w, force, t, fault),
                existing)

\* --------------------------------------------- _sync_configured_roots
\* a variant that inserts without looking for the path
RECURSIVE SyncRootsAlways(_, _)
SyncRootsAlways(rs, i) ==
    IF i > Len(RootPaths) THEN rs
    ELSE SyncRootsAlways(rs \cup {[root_id |-> Cardinality(rs) + 1,
                                   path |-> RootPaths[i], enabled |-> TRUE]}, i + 1)

RECURSIVE SyncRoots(_, _)
SyncRoots(rs, i) ==
    IF i > Len(RootPaths) THEN rs
    ELSE IF \E r \in rs : r.path = RootPaths[i]
         THEN SyncRoots(rs, i + 1)
         ELSE SyncRoots(rs \cup {[root_id |-> Cardinality(rs) + 1,
                                  path |-> RootPaths[i], enabled |-> TRUE]}, i + 1)

\* SELECT root_id, path FROM roots WHERE enabled = 1, as a list
RECURSIVE RowsInOrder(_, _)
RowsInOrder(rs, i) ==
    IF i > Cardinality(rs) THEN <<>>
    ELSE LET hit == {r \in rs : r.root_id = i /\ r.enabled}
         IN (IF hit = {} THEN <<>> ELSE <<CHOOSE r \in hit : TRUE>>)
            \o RowsInOrder(rs, i + 1)

\* ------------------------------------------------------------ get_status
RunningRuns == {i \in 1..Len(index_runs) : index_runs[i].status = RUNNING}

\* WHERE status = 'completed' ORDER BY finished_at DESC LIMIT 1
LastCompleted ==
    LET done == {i \in 1..Len(index_runs) : index_runs[i].status = COMPLETED}
        last == {i \in done : \A j \in done :
                    index_runs[j].finished_at <= index_runs[i].finished_at}
    IN IF done = {} THEN Null ELSE CHOOSE i \in last : TRUE

\* a variant that looks at the newest run only
GetStatusOfNewest ==
    LET n == Len(index_runs)
        running == n > 0 /\ index_runs[n].status = RUNNING
    IN [is_running |-> running,
        current_run |-> IF running THEN n ELSE Null,
        last_completed |-> LastCompleted,
        total_files |-> Cardinality(files),
        total_roots |-> Cardinality(roots)]

GetStatus ==
    [is_running |-> RunningRuns # {},
     current_run |-> IF RunningRuns = {} THEN Null ELSE CHOOSE i \in RunningRuns : TRUE,
     last_completed |-> LastCompleted,
     total_files |-> Cardinality(files),
     total_roots |-> Cardinality(roots)]

\* ------------------------------------------------------------------ Init
RootArgs == {Null, 2, 3}     \* specific_root_id: None, a root id, an unknown id
NoArg == [root |-> Null, force |-> FALSE]

\* the files under the roots when the service is constructed
Disk0 ==
    [r \in RootDirs |-> [p \in Paths |->
        IF r = RootPaths[1] /\ p = WalkOrder[1]
        THEN [ex |-> TRUE, size |-> 5, mtime |-> 1, content |-> 1, offline |-> FALSE]
        ELSE IF r = RootPaths[1] /\ p = WalkOrder[4]
        THEN [ex |-> TRUE, size |-> HashSizeLimit + 1, mtime |-> 1, content |-> 2,
              offline |-> TRUE]
        ELSE IF r = RootPaths[2] /\ p = WalkOrder[1]
        THEN [ex |-> TRUE, size |-> HashSizeLimit, mtime |-> 2, content |-> 1,
              offline |-> FALSE]
        ELSE NoFile]]

\* RunnerService.__init__: no runner is active
NoRunner == ""
NoProgress == ""
active == runner.active
current_runner == runner.current_runner
progress == runner.progress
inv == runner.inv
RunnerInit ==
    runner = [active |-> FALSE, current_runner |-> NoRunner,
              progress |-> NoProgress, inv |-> <<>>]
\* a step that is no step of the runner service
NoInvoke == runner' = runner

\* an empty database over the files of Disk0
InitFresh ==
    /\ now = 0
    /\ disk = Disk0
    /\ fslog = <<>>
    /\ roots = {}
    /\ files = {}
    /\ file_aliases = {}
    /\ index_runs = <<>>
    /\ nextFileId = 1
    /\ pc = [c \in Callers |-> "idle"]
    /\ run = [c \in Callers |-> Null]
    /\ arg = [c \in Callers |-> NoArg]
    /\ todo = [c \in Callers |-> <<>>]
    /\ total = [c \in Callers |-> NoStats]
    /\ result = [c \in Callers |-> "none"]
    /\ hist = <<>>
    /\ lastDone = Null
    /\ refs = {}
    /\ resolved = NoResult
    /\ swept = NoSweep
    /\ RunnerInit

\* the rows rebuild_index(None, force) leaves when it runs alone, start to end,
\* on tables rs, fs over the disk: [roots, files, nextFileId, stats]
RECURSIVE ScanAll(_, _, _, _)
ScanAll(acc, rows, force, t) ==
    IF rows = <<>> THEN acc
    ELSE LET st == ScanRootResult(acc.files, acc.nextFileId, Head(rows).root_id,
                                  Head(rows).path, force, t)
         IN ScanAll([acc EXCEPT !.files = st.files, !.nextFileId = st.nextFileId,
                                !.stats = AddStats(acc.stats, st.stats)],
                    Tail(rows), force, t)

FullRebuild(rs, fs, nfid, force, t) ==
    LET rs1 == SyncRoots(rs, 1)
    IN ScanAll([roots |-> rs1, files |-> fs, nextFileId |-> nfid, stats |-> NoStats],
               RowsInOrder(rs1, 1), force, t)

\* the database after one completed rebuild_index() of the disk Disk0
Init ==
    /\ now = 0
    /\ disk = Disk0
    /\ fslog = <<>>
    /\ file_aliases = {}
    /\ pc = [c \in Callers |-> "idle"]
    /\ run = [c \in Callers |-> Null]
    /\ arg = [c \in Callers |-> NoArg]
    /\ todo = [c \in Callers |-> <<>>]
    /\ total = [c \in Callers |-> NoStats]
    /\ result = [c \in Callers |-> "none"]
    /\ lastDone = 1
    /\ refs = {}
    /\ resolved = NoResult
    /\ swept = NoSweep
    /\ RunnerInit
    /\ \E force \in BOOLEAN : \E done \in {FullRebuild({}, {}, 1, force, 0)} :
            /\ roots = done.roots
            /\ files = done.files
            /\ nextFileId = done.nextFileId
            /\ index_runs = << [kind |-> "full", status |-> COMPLETED, started_at |-> 0,
                                finished_at |-> 0, stats |-> done.stats, error |-> "none"] >>
            /\ hist = << [arg |-> [root |-> Null, force |-> force], b |-> 0, e |-> 0,
                          prev |-> Null, before |-> {},
                          rows |-> done.files,
                          nfiles |-> Cardinality(done.files),
                          scanned |-> {r.root_id : r \in done.roots},
                          faults |-> {}] >>

\* ----------------------------------------------------- the environment
dbVars == <<roots, files, file_aliases, index_runs, nextFileId>>
callVars == <<pc, run, arg, todo, total, result>>
\* a step that is no call of the reference service
NoRefCall == refs' = refs /\ resolved' = NoResult

\* time passes; ClockSteps counts the steps that led to a clock value
ClockSteps(t) ==
    (t % (TicksPerSecond * SecondsPerMinute)) + (t \div (TicksPerSecond * SecondsPerMinute))
Tick ==
    /\ NoRefCall
    /\ swept' = NoSweep
    /\ NoInvoke
    /\ ClockSteps(now) < MaxTime + Len(index_runs)
    /\ \E d \in TickSteps : now' = now + d
    /\ UNCHANGED <<disk, fslog, dbVars, callVars, hist, lastDone>>

FsStep(d, entry) ==
    /\ NoRefCall
    /\ swept' = NoSweep
    /\ NoInvoke
    /\ Len(fslog) < MaxFsOps
    /\ disk' = d
    /\ fslog' = Append(fslog, entry)
    /\ UNCHANGED <<now, dbVars, callVars, hist, lastDone>>

FsCreate(r, p, f) ==
    /\ ~disk[r][p].ex
    /\ FsStep([disk EXCEPT ![r][p] = f],
              [op |-> "create", root |-> r, path |-> p, to |-> p])

FsDelete(r, p) ==
    /\ disk[r][p].ex
    /\ FsStep([disk EXCEPT ![r][p] = NoFile],
              [op |-> "delete", root |-> r, path |-> p, to |-> p])

FsModify(r, p, f) ==
    /\ disk[r][p].ex
    /\ f # disk[r][p]
    /\ FsStep([disk EXCEPT ![r][p] = f],
              [op |-> "modify", root |-> r, path |-> p, to |-> p])

\* rename within the root: same content, size and mtime
FsRename(r, p, q) ==
    /\ disk[r][p].ex
    /\ ~disk[r][q].ex
    /\ FsStep([disk EXCEPT ![r][p] = NoFile, ![r][q] = disk[r][p]],
              [op |-> "rename", root |-> r, path |-> p, to |-> q])

\* the directory of a root is on disk: it was not removed, or a file was put
\* under it since
RootExists(r) ==
    \A i \in 1..Len(fslog) :
        (fslog[i].op = "rmroot" /\ fslog[i].root = r)
        => \E j \in (i + 1)..Len(fslog) : fslog[j].root = r /\ fslog[j].op = "create"

\* the directory of a root goes, with all that is in it
FsRmRoot(r) ==
    /\ RootExists(r)
    /\ FsStep([disk EXCEPT ![r] = [p \in Paths |-> NoFile]],
              [op |-> "rmroot", root |-> r, path |-> WalkOrder[1], to |-> WalkOrder[1]])

\* shutil.rmtree of a directory: every path below it goes
Below(dir) == {p \in Paths : Len(p) > 1 /\ p[1] = dir}
FsRmTree(r, dir) ==
    /\ \E p \in Below(dir) : disk[r][p].ex
    /\ FsStep([disk EXCEPT ![r] = [p \in Paths |->
                   IF p \in Below(dir) THEN NoFile ELSE disk[r][p]]],
              [op |-> "rmtree", root |-> r, path |-> <<dir>>, to |-> <<dir>>])

\* ------------------------------------------------------ ReferenceService
\* the root a canonical path lies under, and whether a file is at the path
RootOfPath(cp) ==
    {r \in RootDirs : \E p \in Paths : CanonicalPath(r, RelStr(p)) = cp}
OnDisk(cp) ==
    \E r \in RootDirs, p \in Paths :
        CanonicalPath(r, RelStr(p)) = cp /\ disk[r][p].ex
IndexedAt(cp) == {f \in files : f.canonical_path = cp}

\* register(path): the reference is linked to the indexed file at the path and
\* captures its content_hash, when the index has them
NewRef(cp) ==
    LET hit == IndexedAt(cp)
        f == CHOOSE x \in hit : TRUE
    IN [ref_id |-> Cardinality(refs) + 1, canonical_path |-> cp,
        file_id |-> IF hit = {} THEN Null ELSE f.file_id,
        content_hash |-> IF hit = {} THEN Null ELSE f.content_hash]

Register(cp) ==
    /\ refs = {}              \* one reference is followed
    /\ refs' = refs \cup {NewRef(cp)}
    /\ resolved' = NoResult
    /\ swept' = NoSweep
    /\ NoInvoke
    /\ UNCHANGED <<now, disk, fslog, dbVars, callVars, hist, lastDone>>

\* the current records with the reference's hash under the reference's root
HashMatches(ref) ==
    {f \in files : /\ f.content_hash = ref.content_hash
                   /\ \E r \in roots : /\ r.root_id = f.root_id
                                       /\ r.path \in RootOfPath(ref.canonical_path)}

\* resolve(ref_id): the exact path first, the content hash next. Between
\* several records with the hash the policy is open: one seen last is taken,
\* or none is
NoPath == ""
ResolveResults(ref) ==
    LET hit(f) == [ref_id |-> ref.ref_id, found |-> TRUE, strategy |-> "hash",
                   path |-> f.canonical_path]
        miss == [ref_id |-> ref.ref_id, found |-> FALSE, strategy |-> "none",
                 path |-> NoPath]
        m == HashMatches(ref)
    IN IF OnDisk(ref.canonical_path) /\ IndexedAt(ref.canonical_path) # {}
       THEN {[ref_id |-> ref.ref_id, found |-> TRUE, strategy |-> "exact",
              path |-> ref.canonical_path]}
       ELSE IF ref.content_hash = Null \/ m = {}
       THEN {miss}
       ELSE IF Cardinality(m) = 1
       THEN {hit(f) : f \in m}
       ELSE {miss} \cup
            {hit(f) : f \in {x \in m : \A o \in m : o.last_seen_at <= x.last_seen_at}}

\* a variant that rewrites the reference to the path it found
ResolveAndRelink(ref) ==
    /\ resolved' \in ResolveResults(ref)
    /\ refs' = IF resolved'.strategy = "hash"
               THEN {[ref EXCEPT !.canonical_path = resolved'.path]}
               ELSE refs
    /\ swept' = NoSweep
    /\ NoInvoke
    /\ UNCHANGED <<now, disk, fslog, dbVars, callVars, hist, lastDone>>

Resolve(ref) ==
    /\ resolved' \in ResolveResults(ref)
    /\ swept' = NoSweep
    /\ NoInvoke
    /\ UNCHANGED <<now, disk, fslog, dbVars, callVars, hist, lastDone, refs>>

\* the paths references are registered for
RefPaths ==
    {CanonicalPath(RootPaths[1], RelStr(WalkOrder[1])),
     CanonicalPath(RootPaths[1], RelStr(WalkOrder[2])),
     CanonicalPath(RootPaths[2], RelStr(WalkOrder[1]))}

RefCall ==
    \/ \E cp \in RefPaths : Register(cp)
    \/ \E ref \in refs : Resolve(ref)

\* ------------------------------------------------------- rebuild_index
\* lines 51-62: the run row is inserted as Running and committed; every call
\* reads a clock later than the calls before it
Rebuild(c, root, force) ==
    /\ NoRefCall
    /\ swept' = NoSweep
    /\ NoInvoke
    /\ pc[c] = "idle"
    /\ Len(index_runs) < MaxRuns
    /\ now' = now + 1
    /\ index_runs' = Append(index_runs,
          [kind |-> "full", status |-> RUNNING, started_at |-> now',
           finished_at |-> Null, stats |-> NoStats, error |-> "none"])
    /\ hist' = Append(hist,
          [arg |-> [root |-> root, force |-> force], b |-> Len(fslog), e |-> NotYet,
           prev |-> lastDone, before |-> RunningRuns, rows |-> {}, nfiles |-> 0,
           scanned |-> {}, faults |-> {}])
    /\ pc' = [pc EXCEPT ![c] = "resolve"]
    /\ run' = [run EXCEPT ![c] = Len(index_runs) + 1]
    /\ arg' = [arg EXCEPT ![c] = [root |-> root, force |-> force]]
    /\ todo' = [todo EXCEPT ![c] = <<>>]
    /\ total' = [total EXCEPT ![c] = NoStats]
    /\ result' = [result EXCEPT ![c] = "none"]
    /\ UNCHANGED <<disk, fslog, roots, files, file_aliases, nextFileId, lastDone>>

\* rescan(): "alias for rebuild"
Rescan(c) == Rebuild(c, Null, FALSE)

\* a variant that leaves the run as it is
MarkFailedNot(runs, id, err, t) == runs

\* lines 134-150: the except branch marks the run Failed and re-raises
MarkFailed(runs, id, err, t) ==
    [runs EXCEPT ![id].status = FAILED, ![id].finished_at = t, ![id].error = err]

\* a variant that takes an unknown root id for an empty list of roots
ResolveRootsOrNone(c) ==
    /\ NoRefCall
    /\ swept' = NoSweep
    /\ NoInvoke
    /\ pc[c] = "resolve"
    /\ IF arg[c].root # Null
       THEN /\ todo' = [todo EXCEPT ![c] =
                          SelectSeq(RowsInOrder(roots, 1),
                                    LAMBDA r : r.root_id = arg[c].root)]
            /\ roots' = roots
       ELSE /\ roots' = SyncRoots(roots, 1)
            /\ todo' = [todo EXCEPT ![c] = RowsInOrder(roots', 1)]
    /\ pc' = [pc EXCEPT ![c] = "scan"]
    /\ UNCHANGED <<now, disk, fslog, files, file_aliases, nextFileId, index_runs,
                   result, run, arg, total, hist, lastDone>>

\* lines 64-83: roots_to_scan
ResolveRoots(c) ==
    /\ NoRefCall
    /\ swept' = NoSweep
    /\ NoInvoke
    /\ pc[c] = "resolve"
    /\ IF arg[c].root # Null
       THEN LET row == {r \in roots : r.root_id = arg[c].root}
            IN IF row = {}
               THEN /\ index_runs' = MarkFailed(index_runs, run[c], "NotFound", now)
                    /\ pc' = [pc EXCEPT ![c] = "idle"]
                    /\ result' = [result EXCEPT ![c] = "NotFound"]
                    /\ UNCHANGED <<roots, todo>>
               ELSE /\ todo' = [todo EXCEPT ![c] = <<CHOOSE r \in row : TRUE>>]
                    /\ pc' = [pc EXCEPT ![c] = "scan"]
                    /\ UNCHANGED <<roots, index_runs, result>>
       ELSE /\ roots' = SyncRoots(roots, 1)
            /\ todo' = [todo EXCEPT ![c] = RowsInOrder(roots', 1)]
            /\ pc' = [pc EXCEPT ![c] = "scan"]
            /\ UNCHANGED <<index_runs, result>>
    /\ UNCHANGED <<now, disk, fslog, files, file_aliases, nextFileId,
                   run, arg, total, hist, lastDone>>

\* lines 88-108: one turn of the loop over roots_to_scan
ScanRoot(c) ==
    /\ NoRefCall
    /\ swept' = NoSweep
    /\ NoInvoke
    /\ pc[c] = "scan"
    /\ todo[c] # <<>>
    /\ LET r == Head(todo[c])
           st == ScanRootResult(files, nextFileId, r.root_id, r.path, arg[c].force, now)
       IN /\ files' = st.files
          /\ nextFileId' = st.nextFileId
          /\ total' = [total EXCEPT ![c] = AddStats(total[c], st.stats)]
          /\ hist' = [hist EXCEPT ![run[c]].scanned = @ \cup {r.root_id}]
    /\ todo' = [todo EXCEPT ![c] = Tail(todo[c])]
    /\ UNCHANGED <<now, disk, fslog, roots, file_aliases, index_runs,
                   pc, run, arg, result, lastDone>>

\* a variant in which what goes wrong inside _scan_root ends the run
ScanRootFaultEndsRun(c, fault) ==
    /\ NoRefCall
    /\ swept' = NoSweep
    /\ NoInvoke
    /\ pc[c] = "scan"
    /\ todo[c] # <<>>
    /\ Cardinality(hist[run[c]].faults) < MaxFaults
    /\ CanHappen(fault, {f \in files : f.root_id = Head(todo[c]).root_id},
                 Head(todo[c]).path, arg[c].force)
    /\ index_runs' = [index_runs EXCEPT ![run[c]].status = FAILED,
                                        ![run[c]].finished_at = now,
                                        ![run[c]].error = "Error"]
    /\ hist' = [hist EXCEPT ![run[c]].faults = @ \cup
                   {[kind |-> fault.kind, root_id |-> Head(todo[c]).root_id,
                     path |-> fault.path, at |-> fault.at]}]
    /\ pc' = [pc EXCEPT ![c] = "idle"]
    /\ result' = [result EXCEPT ![c] = "Error"]
    /\ UNCHANGED <<now, disk, fslog, roots, files, file_aliases, nextFileId,
                   run, arg, todo, total, lastDone>>

\* lines 88-108 when something goes wrong inside _scan_root
ScanRootFault(c, fault) ==
    /\ NoRefCall
    /\ swept' = NoSweep
    /\ NoInvoke
    /\ pc[c] = "scan"
    /\ todo[c] # <<>>
    /\ Cardinality(hist[run[c]].faults) < MaxFaults
    /\ LET r == Head(todo[c])
           st == ScanRootFaulty(files, nextFileId, r.root_id, r.path,
                                arg[c].force, now, fault)
       IN /\ CanHappen(fault, {f \in files : f.root_id = r.root_id}, r.path, arg[c].force)
          /\ files' = st.files
          /\ nextFileId' = st.nextFileId
          /\ total' = [total EXCEPT ![c] = AddStats(total[c], st.stats)]
          /\ hist' = [hist EXCEPT ![run[c]].scanned = @ \cup {r.root_id},
                                  ![run[c]].faults = @ \cup
                                      {[kind |-> fault.kind, root_id |-> r.root_id,
                                        path |-> fault.path, at |-> fault.at]}]
    /\ todo' = [todo EXCEPT ![c] = Tail(todo[c])]
    /\ UNCHANGED <<now, disk, fslog, roots, file_aliases, index_runs,
                   pc, run, arg, result, lastDone>>

\* lines 88-108 when a statement outside the try of _scan_root raises (the
\* SELECT of the existing rows, lines 233-242): the except branch of
\* rebuild_index marks the run Failed and re-raises
ScanRootRaises(c) ==
    /\ NoRefCall
    /\ swept' = NoSweep
    /\ NoInvoke
    /\ pc[c] = "scan"
    /\ todo[c] # <<>>
    /\ Cardinality(hist[run[c]].faults) < MaxFaults
    /\ index_runs' = MarkFailed(index_runs, run[c], "Error", now)
    /\ hist' = [hist EXCEPT ![run[c]].faults = @ \cup
                   {[kind |-> "db", root_id |-> Head(todo[c]).root_id,
                     path |-> WalkOrder[1], at |-> 0]}]
    /\ pc' = [pc EXCEPT ![c] = "idle"]
    /\ result' = [result EXCEPT ![c] = "Error"]
    /\ UNCHANGED <<now, disk, fslog, roots, files, file_aliases, nextFileId,
                   run, arg, todo, total, lastDone>>

\* lines 112-132: the run is marked Completed with the total stats
Finish(c) ==
    /\ NoRefCall
    /\ swept' = NoSweep
    /\ NoInvoke
    /\ pc[c] = "scan"
    /\ todo[c] = <<>>
    /\ index_runs' = [index_runs EXCEPT ![run[c]].status = COMPLETED,
                                        ![run[c]].finished_at = now,
                                        ![run[c]].stats = total[c]]
    /\ hist' = [hist EXCEPT ![run[c]].e = Len(fslog),
                            ![run[c]].rows = files,
                            ![run[c]].nfiles = GetStatus.total_files]
    /\ lastDone' = run[c]
    /\ pc' = [pc EXCEPT ![c] = "idle"]
    /\ result' = [result EXCEPT ![c] = COMPLETED]
    /\ UNCHANGED <<now, disk, fslog, roots, files, file_aliases, nextFileId,
                   run, arg, todo, total>>

\* ------------------------------------------ IndexRunRepository.cancel_stale
\* SQLite's datetime(): the time in whole seconds
DateTime(t) == t \div TicksPerSecond

\* a variant that takes every Running run for stale
StaleRunsAnyAge(runs, minutes, t) ==
    {i \in 1..Len(runs) : runs[i].status = RUNNING}

\* WHERE status = 'running'
\*   AND datetime(started_at) < datetime(cutoff, '-' || minutes || ' minutes')
StaleRuns(runs, minutes, t) ==
    {i \in 1..Len(runs) :
        /\ runs[i].status = RUNNING
        /\ DateTime(runs[i].started_at) < DateTime(t) - minutes * SecondsPerMinute}

\* a variant that leaves finished_at as it is
CancelStaleRunsUnstamped(runs, minutes, t) ==
    [i \in 1..Len(runs) |->
        IF i \in StaleRuns(runs, minutes, t)
        THEN [runs[i] EXCEPT !.status = CANCELLED]
        ELSE runs[i]]

\* UPDATE index_runs SET status = 'cancelled', finished_at = cutoff WHERE ...
CancelStaleRuns(runs, minutes, t) ==
    [i \in 1..Len(runs) |->
       IF i \in StaleRuns(runs, minutes, t)
       THEN [runs[i] EXCEPT !.status = CANCELLED, !.finished_at = t]
       ELSE runs[i]]

\* cancel_stale(minutes): cutoff is the clock now, the return value is
\* cursor.rowcount
CancelStale(minutes) ==
    /\ refs' = refs /\ resolved' = NoResult
    /\ NoInvoke
    /\ index_runs' = CancelStaleRuns(index_runs, minutes, now)
    /\ swept' = [minutes |-> minutes,
                 count |-> Cardinality(StaleRuns(index_runs, minutes, now))]
    /\ UNCHANGED <<now, disk, fslog, roots, files, file_aliases, nextFileId,
                   callVars, hist, lastDone>>

\* ------------------------------------------------------------------ Next
FsChange ==
    \/ \E r \in RootDirs, p \in Paths, f \in DiskFiles : p \in PathsOf(r) /\ FsCreate(r, p, f)
    \/ \E r \in RootDirs, p \in Paths : FsDelete(r, p)
    \/ \E r \in RootDirs, p \in Paths, f \in DiskFiles : FsModify(r, p, f)
    \/ \E r \in RootDirs, p, q \in Paths : q \in PathsOf(r) /\ FsRename(r, p, q)
    \/ \E r \in RootDirs : FsRmTree(r, "sub")

Call(c) ==
    \/ \E root \in RootArgs, force \in BOOLEAN : Rebuild(c, root, force)
    \/ Rescan(c)
    \/ ResolveRoots(c)
    \/ ScanRoot(c)
    \/ Finish(c)

\* one thread calls the service; the disk changes between its calls
Next ==
    \/ (pc["t1"] = "idle" /\ FsChange)
    \/ Call("t1")

Spec == Init /\ [][Next]_vars

\* the indexer and the reference service: references are registered and
\* resolved between the calls of the one indexing caller
NextRefs ==
    \/ (pc["t1"] = "idle" /\ FsChange)
    \/ Call("t1")
    \/ (pc["t1"] = "idle" /\ RefCall)

SpecRefs == Init /\ [][NextRefs]_vars

\* two threads call the service while time passes, stale runs are swept and
\* the disk gains and loses one file
NextRace ==
    \/ Tick
    \/ FsCreate(RootPaths[1], WalkOrder[2], Disk0[RootPaths[1]][WalkOrder[1]])
    \/ FsDelete(RootPaths[1], WalkOrder[1])
    \/ \E c \in Callers : Call(c)
    \/ \E m \in StaleMinutes : CancelStale(m)

SpecRace == InitFresh /\ [][NextRace]_vars

\* the steps a call of rebuild_index takes after its INSERT
InCall(c) == ResolveRoots(c) \/ ScanRoot(c) \/ Finish(c)

\* one thread calls the service over a disk and a database that fail now and
\* then; between its calls a file of the first root is removed or written, or
\* the directory of the second root goes
NextFaults ==
    \/ (pc["t1"] = "idle" /\ FsDelete(RootPaths[1], WalkOrder[1]))
    \/ (pc["t1"] = "idle" /\ FsRmRoot(RootPaths[2]))
    \/ (pc["t1"] = "idle" /\
          FsCreate(RootPaths[1], WalkOrder[2], Disk0[RootPaths[1]][WalkOrder[1]]))
    \/ Rescan("t1")
    \/ Rebuild("t1", Null, TRUE)
    \/ InCall("t1")
    \/ \E fault \in Faults : ScanRootFault("t1", fault)
    \/ ScanRootRaises("t1")

SpecFaults == Init /\ [][NextFaults]_vars

\* the run tracker: one thread rescans and another asks for a root that is
\* not there, while time passes and stale runs are swept; the disk stays as
\* it is
NextStale ==
    \/ Tick
    \/ Rescan("t1")
    \/ Rebuild("t2", 3, FALSE)
    \/ \E c \in Callers : ResolveRoots(c)
    \/ ScanRoot("t1")
    \/ Finish("t1")
    \/ \E m \in StaleMinutes : CancelStale(m)

SpecStale == InitFresh /\ [][NextStale]_vars

\* one thread calls rebuild_index again and again, a statement of a scan may
\* raise, time passes and stale runs are swept; the thread that runs a call
\* is scheduled until the call is over
NextLive ==
    \/ Tick
    \/ \E root \in RootArgs : Rebuild("t1", root, FALSE)
    \/ InCall("t1")
    \/ ScanRootRaises("t1")
    \/ \E m \in StaleMinutes : CancelStale(m)

\* line 88: the loop over roots_to_scan takes its next root
TakeRoot(c) ==
    /\ pc[c] = "scan"
    /\ todo[c] # <<>>
    /\ todo' = [todo EXCEPT ![c] = Tail(todo[c])]

SpecLive ==
    /\ InitFresh /\ [][NextLive]_vars
    /\ WF_vars(ResolveRoots("t1"))
    /\ WF_todo(TakeRoot("t1"))
    /\ WF_vars(Finish("t1"))

\* ------------------------------------------------------- RunnerService
\* the runner ids a request carries: the one the service knows and another
RunnerIds == {"autocollector", "other"}
\* the stages ArtistCrawler.collect reports through the progress callback
Stages == {"starting", "crawling", "complete"}
\* the artifact a collect leaves in the output folder; the folder lies
\* outside the indexed roots
ArtifactPaths == {"/out/index.html"}

AlreadyActive == "Another runner is already active"
UnknownRunner == "Unknown runner: other"
FolderNotAllowed == "Output folder not under allowed roots: /elsewhere"
CollectFailed == "collect failed"
NoError == ""

\* status: what the service tells about itself
Status == [active |-> active, current_runner |-> current_runner,
           progress |-> progress]
Cleared == [active |-> FALSE, current_runner |-> NoRunner, progress |-> NoProgress]

RunnerResult(rid, ok, err) ==
    [runner_id |-> rid, at |-> "returned", success |-> ok, error |-> err]
Collecting == {i \in 1..Len(inv) : inv[i].at = "collect"}

\* line 64: a call is admitted when no runner is active
AdmittedAlways(a) == TRUE
Admitted(a) == ~a

\* the finally block: it runs on every way out of the try block
Finally(r) ==
    [r EXCEPT !.active = FALSE, !.current_runner = NoRunner,
              !.progress = NoProgress]
\* the call is entered in the history
Called(r, rec) == [r EXCEPT !.inv = Append(r.inv, rec)]

\* invoke(request) up to its first await. The service runs on one event
\* loop and there is no await between the test of _active and its
\* assignment, so the two are one step. A call that is refused returns
\* before the try block; an unknown runner and an output folder that is
\* not allowed leave through the try block without an await
Invoke(rid, folderAllowed) ==
    /\ Len(inv) < MaxInvokes
    /\ NoRefCall
    /\ swept' = NoSweep
    /\ runner' =
         IF ~Admitted(active)
         THEN Called(runner, RunnerResult(rid, FALSE, AlreadyActive))
         ELSE IF rid # "autocollector"
         THEN Finally(Called(runner, RunnerResult(rid, FALSE, UnknownRunner)))
         ELSE IF ~folderAllowed
         THEN Finally(Called(runner, RunnerResult(rid, FALSE, FolderNotAllowed)))
         ELSE [Called(runner, [runner_id |-> rid, at |-> "collect",
                               success |-> FALSE, error |-> NoError])
                 EXCEPT !.active = TRUE, !.current_runner = rid]
    /\ UNCHANGED <<now, disk, fslog, dbVars, callVars, hist, lastDone>>

\* the wrapper of _update_progress_callback, called by a running collect
UpdateProgress(i, stage) ==
    /\ i \in Collecting
    /\ runner' = [runner EXCEPT !.progress = stage]
    /\ NoRefCall
    /\ swept' = NoSweep
    /\ UNCHANGED <<now, disk, fslog, dbVars, callVars, hist, lastDone>>

\* collect returns its artifacts: each is registered as a reference and the
\* call returns success
RegisterAll(rs, paths) ==
    rs \cup {[ref_id |-> Cardinality(rs) + 1, canonical_path |-> cp,
              file_id |-> Null, content_hash |-> Null] : cp \in paths}
CollectReturns(i, artifacts) ==
    /\ i \in Collecting
    /\ refs' = RegisterAll(refs, artifacts)
    /\ resolved' = NoResult
    /\ swept' = NoSweep
    /\ runner' = Finally([runner EXCEPT
                    !.inv[i] = RunnerResult(inv[i].runner_id, TRUE, NoError)])
    /\ UNCHANGED <<now, disk, fslog, dbVars, callVars, hist, lastDone>>

\* collect raises: an Exception is turned into a result, anything else (the
\* task is cancelled) leaves the call; the finally block runs in both
CollectRaises(i, caught) ==
    /\ i \in Collecting
    /\ NoRefCall
    /\ swept' = NoSweep
    /\ runner' = Finally([runner EXCEPT !.inv[i] =
                 IF caught THEN RunnerResult(inv[i].runner_id, FALSE, CollectFailed)
                 ELSE [inv[i] EXCEPT !.at = "raised"]])
    /\ UNCHANGED <<now, disk, fslog, dbVars, callVars, hist, lastDone>>

\* the requests of several clients on the one event loop
NextRunner ==
    \/ \E rid \in RunnerIds, folderAllowed \in BOOLEAN : Invoke(rid, folderAllowed)
    \/ \E i \in 1..MaxInvokes, stage \in Stages : UpdateProgress(i, stage)
    \/ \E i \in 1..MaxInvokes, artifacts \in SUBSET ArtifactPaths :
            CollectReturns(i, artifacts)
    \/ \E i \in 1..MaxInvokes, caught \in BOOLEAN : CollectRaises(i, caught)

SpecRunner == InitFresh /\ [][NextRunner]_vars


\* ============================================================ the claims
Idle == \A c \in Callers : pc[c] = "idle"
Ids(rows) == {<<f.file_id, f.root_id, f.rel_path>> : f \in rows}
RootIdOf(rpath) == {r.root_id : r \in {x \in roots : x.path = rpath}}
RowsAt(rows, rpath, p) ==
    {f \in rows : f.root_id \in RootIdOf(rpath) /\ f.rel_path = RelStr(p)}
Done(y) == y # Null /\ index_runs[y].status = COMPLETED /\ hist[y].e # NotYet
\* y is the call that completed last and nothing has touched the tables or
\* the disk since it began
Settled(y) == Idle /\ lastDone = y /\ Done(y) /\ hist[y].b = Len(fslog)

\* C1: at most one index_runs row has status Running, in every reachable state.
AtMostOneRunning == Cardinality(RunningRuns) <= 1

\* C2: of two calls of rebuild that overlap, with no other run Running when
\* they were made, exactly one has created a Running run and proceeds; the
\* other got a Conflict.
RaceHasOneWinner ==
    \A c1, c2 \in Callers :
        ( /\ c1 # c2
          /\ pc[c1] # "idle" /\ pc[c2] # "idle"
          /\ hist[run[c1]].before \subseteq {run[c2]}
          /\ hist[run[c2]].before \subseteq {run[c1]} )
        => \E w, l \in {c1, c2} :
              /\ w # l
              /\ index_runs[run[w]].status = RUNNING
              /\ result[l] = "Conflict"
              /\ pc[l] = "idle"

\* C3: a call of rebuild or rescan made while some run is Running ends in a
\* Conflict, inserts no index_runs row and changes no root, file or run.
CallStep(c) == pc[c] = "idle" /\ (pc'[c] # "idle" \/ result'[c] # result[c])
RebuildWhileRunningConflicts ==
    [][\A c \in Callers :
          (RunningRuns # {} /\ CallStep(c))
          => /\ result'[c] = "Conflict"
             /\ pc'[c] = "idle"
             /\ index_runs' = index_runs
             /\ roots' = roots
             /\ files' = files]_vars

\* the last change of the disk, when the call y began right after it and the
\* call before y had completed right before it
LastOp == fslog[Len(fslog)]
OneChangeBefore(y) ==
    /\ Settled(y)
    /\ Len(fslog) >= 1
    /\ hist[y].prev # Null
    /\ Done(hist[y].prev)
    /\ hist[hist[y].prev].e = Len(fslog) - 1
    /\ RootIdOf(LastOp.root) \subseteq hist[y].scanned
    /\ RootIdOf(LastOp.root) # {}

\* C4: after an indexed file is renamed within its root and a rescan has run,
\* the record at the new rel_path carries the file_id the old path had, no
\* record is left at the old rel_path, and exactly one file_aliases row names
\* the old path.
RenameKeepsFileId ==
    \A y \in 1..Len(index_runs) :
        ( /\ OneChangeBefore(y)
          /\ LastOp.op = "rename"
          /\ ~Hidden(LastOp.to)
          /\ RowsAt(hist[hist[y].prev].rows, LastOp.root, LastOp.path) # {} )
        => /\ \A old \in RowsAt(hist[hist[y].prev].rows, LastOp.root, LastOp.path) :
                \E f \in RowsAt(files, LastOp.root, LastOp.to) : f.file_id = old.file_id
           /\ RowsAt(files, LastOp.root, LastOp.path) = {}
           /\ Cardinality({a \in file_aliases : a.old_canonical_path =
                  CanonicalPath(LastOp.root, RelStr(LastOp.path))}) = 1

\* C5: once a rescan that began after a file (or a whole directory) was
\* deleted has completed, no files row is left for the path of any file that
\* is gone from a root it scanned, nor for a directory none of whose files is
\* left.
DirGone(rpath, dir) == \A p \in Below(dir) : ~disk[rpath][p].ex
RepeatReportsNothing ==
    \A y \in 1..Len(index_runs) :
        ( /\ Done(y)
          /\ hist[y].prev # Null
          /\ Done(hist[y].prev)
          /\ hist[hist[y].prev].arg = hist[y].arg
          /\ hist[hist[y].prev].b = hist[y].e )
        => /\ index_runs[y].stats.added = 0
           /\ index_runs[y].stats.updated = 0
           /\ index_runs[y].stats.removed = 0
           /\ Ids(hist[y].rows) = Ids(hist[hist[y].prev].rows)

\* the changes of the disk between the end of call x and the start of call y
Between(x, y) == {i \in 1..Len(fslog) : hist[x].e < i /\ i <= hist[y].b}
NewVisibleFile(i) == fslog[i].op = "create" /\ ~Hidden(fslog[i].path)

SameStat(y, fb) ==
    \E r \in roots, p \in Paths :
        /\ r.root_id = fb.root_id /\ r.root_id \in hist[y].scanned
        /\ RelStr(p) = fb.rel_path
        /\ disk[r.path][p].ex /\ ~Hidden(p)
        /\ disk[r.path][p].size = fb.size
        /\ disk[r.path][p].mtime = fb.mtime_ns

\* C8 as stated: for an indexed file whose size and mtime_ns on disk equal the
\* stored ones, a second rebuild leaves file_id, content_hash, size, mtime_ns,
\* rel_path and canonical_path as they were.
SecondRebuildKeepsRecord ==
    \A y \in 1..Len(index_runs) :
        (Settled(y) /\ hist[y].prev # Null /\ Done(hist[y].prev)) =>
          \A fb \in hist[hist[y].prev].rows :
             SameStat(y, fb) =>
                \E fa \in files :
                   /\ fa.file_id = fb.file_id
                   /\ fa.content_hash = fb.content_hash
                   /\ fa.size = fb.size /\ fa.mtime_ns = fb.mtime_ns
                   /\ fa.rel_path = fb.rel_path
                   /\ fa.canonical_path = fb.canonical_path

\* C8 amended: for an indexed file whose size and mtime_ns on disk equal the
\* stored ones, a second rebuild without forced hashing changes nothing of
\* its record but last_seen_at.
UnforcedRebuildOnlyTouches ==
    \A y \in 1..Len(index_runs) :
        (Settled(y) /\ hist[y].prev # Null /\ Done(hist[y].prev) /\ ~hist[y].arg.force) =>
          \A fb \in hist[hist[y].prev].rows :
             SameStat(y, fb) =>
                \E t \in 0..now : [fb EXCEPT !.last_seen_at = t] \in files

\* C8 witness: an unforced rebuild has refreshed last_seen_at of a record whose
\* file kept its size and mtime.
UnforcedRebuildOnlyTouchesWitness ==
    \E y \in 1..Len(index_runs) :
        /\ Settled(y) /\ hist[y].prev # Null /\ Done(hist[y].prev) /\ ~hist[y].arg.force
        /\ \E fb \in hist[hist[y].prev].rows :
              /\ SameStat(y, fb)
              /\ fb \notin files
              /\ [fb EXCEPT !.last_seen_at = index_runs[y].started_at] \in files

\* the reference the last resolve call was about
Returned == resolved # NoResult
TheRef == CHOOSE r \in refs : r.ref_id = resolved.ref_id
ExactResult(ref) ==
    [ref_id |-> ref.ref_id, found |-> TRUE, strategy |-> "exact",
     path |-> ref.canonical_path]
HashResult(ref, f) ==
    [ref_id |-> ref.ref_id, found |-> TRUE, strategy |-> "hash",
     path |-> f.canonical_path]
SameHash(ref) == {f \in files : f.content_hash = ref.content_hash}

RenamedAndRescanned(ref) ==
    \E y \in 1..Len(index_runs) :
        /\ OneChangeBefore(y)
        /\ LastOp.op = "rename" /\ ~Hidden(LastOp.to)
        /\ ref.canonical_path = CanonicalPath(LastOp.root, RelStr(LastOp.path))
        /\ hist[y].arg.force /\ hist[hist[y].prev].arg.force
        /\ RootIdOf(LastOp.root) \subseteq hist[hist[y].prev].scanned
        /\ \E old \in RowsAt(hist[hist[y].prev].rows, LastOp.root, LastOp.path) :
              ref.file_id = old.file_id /\ ref.content_hash = old.content_hash
        /\ \A p \in Paths \ {LastOp.to} :
              (disk[LastOp.root][p].ex /\ ~Hidden(p)) =>
                 disk[LastOp.root][p].content # disk[LastOp.root][LastOp.to].content

NoMatch(ref) ==
    /\ IndexedAt(ref.canonical_path) = {}
    /\ (ref.content_hash = Null \/ SameHash(ref) = {})
ResolveMissReadsOnly ==
    /\ [](Returned =>
            (NoMatch(TheRef) =>
               resolved = [ref_id |-> TheRef.ref_id, found |-> FALSE,
                           strategy |-> "none", path |-> NoPath]))
    /\ [][resolved' # NoResult =>
             /\ refs' = refs
             /\ files' = files
             /\ file_aliases' = file_aliases]_vars

\* C10 witness: a reference with a hash no record has any more, its path gone
\* from the index, has been resolved.
ResolveMissReadsOnlyWitness ==
    /\ Returned
    /\ NoMatch(TheRef)
    /\ TheRef.content_hash # Null
    /\ ~resolved.found

\* the record of the file at p under root r, when a completed call that began
\* after the last change of the disk has scanned r
ScannedRows(y, r, p) ==
    IF Settled(y) /\ r.root_id \in hist[y].scanned /\ disk[r.path][p].ex /\ ~Hidden(p)
    THEN RowsAt(files, r.path, p)
    ELSE {}

\* C11: a file whose size is exactly the hash limit has a content_hash after
\* a rebuild, and a file one byte larger, or larger still, has none.
HashedUpToLimit ==
    \A y \in 1..Len(index_runs) : \A r \in roots : \A p \in Paths :
        \A f \in ScannedRows(y, r, p) :
            /\ f.size = HashSizeLimit => f.content_hash # Null
            /\ f.size > HashSizeLimit => f.content_hash = Null

\* the directories with a visible file below them under root path rpath
DirsOnDisk(rpath) ==
    {p[1] : p \in {q \in Paths : Len(q) > 1 /\ disk[rpath][q].ex /\ ~Hidden(q)}}

\* C12: after a completed rebuild every non-hidden directory under a root it
\* scanned has a files row with is_dir true.
DirectoriesIndexed ==
    \A y \in 1..Len(index_runs) : \A r \in roots :
        (Settled(y) /\ r.root_id \in hist[y].scanned) =>
            \A d \in DirsOnDisk(r.path) :
                \E f \in RowsAt(files, r.path, <<d>>) : f.is_dir

\* C13: the status of a run changes only from Running, and only to
\* Completed, Failed or Cancelled; the status of a run that has ended is
\* changed by no step.
TerminalStatusKept ==
    [][\A i \in 1..Len(index_runs) :
          index_runs'[i].status # index_runs[i].status
          => /\ index_runs[i].status = RUNNING
             /\ index_runs'[i].status \in {COMPLETED, FAILED, CANCELLED}]_vars

\* a step of cancel_stale that found the runs in old stale: they are
\* Cancelled with a finished_at, their number is returned, and every other
\* run is as it was
SweptExactly(old) ==
    /\ swept'.count = Cardinality(old)
    /\ Len(index_runs') = Len(index_runs)
    /\ \A i \in 1..Len(index_runs) :
          IF i \in old
          THEN /\ index_runs'[i].finished_at # Null
               /\ index_runs'[i] =
                     [index_runs[i] EXCEPT !.status = CANCELLED,
                                           !.finished_at = index_runs'[i].finished_at]
          ELSE index_runs'[i] = index_runs[i]

\* C20 as stated: cancel_stale(t) cancels exactly the Running runs whose start
\* is more than t minutes before the time of the call, sets their
\* finished_at, returns their number and leaves every other run as it was.
CancelStaleByAge ==
    [][swept' # NoSweep =>
          SweptExactly({i \in 1..Len(index_runs) :
              /\ index_runs[i].status = RUNNING
              /\ now - index_runs[i].started_at >
                    swept'.minutes * SecondsPerMinute * TicksPerSecond})]_vars

\* C20 amended: cancel_stale(t) cancels exactly the Running runs whose start,
\* in whole seconds, is more than t minutes before the time of the call in
\* whole seconds, sets their finished_at, returns their number and leaves
\* every other run as it was.
CancelStaleByWholeSeconds ==
    [][swept' # NoSweep =>
          SweptExactly({i \in 1..Len(index_runs) :
              /\ index_runs[i].status = RUNNING
              /\ (now \div TicksPerSecond) - (index_runs[i].started_at \div TicksPerSecond)
                    > swept'.minutes * SecondsPerMinute})]_vars

\* C20 witness: cancel_stale has cancelled one run and left a younger Running
\* run as it was.
CancelStaleByWholeSecondsWitness ==
    /\ swept # NoSweep
    /\ swept.count = 1
    /\ \E i, j \in 1..Len(index_runs) :
          /\ index_runs[i].status = CANCELLED /\ index_runs[i].finished_at = now
          /\ index_runs[j].status = RUNNING /\ j > i


\* the call that made run y has returned or raised
Ended(y) == \A c \in Callers : run[c] = y => pc[c] = "idle"

\* the faults of run y that are not about one file
RootFaults(y) == {x \in hist[y].faults : x.kind \in {"walk", "db"}}

\* C14: a run in which the processing of a root failed as a whole (the walk
\* or a database statement raised) ends Failed, not Completed.
RootFailureFailsRun ==
    \A y \in 1..Len(index_runs) :
        (Ended(y) /\ RootFaults(y) # {}) => index_runs[y].status = FAILED

\* the visible files of the roots run y scanned, but for those that failed
OtherFiles(y) ==
    {<<r, p>> \in roots \X Paths :
        /\ r.root_id \in hist[y].scanned
        /\ disk[r.path][p].ex /\ ~Hidden(p)
        /\ \A x \in hist[y].faults : ~(x.root_id = r.root_id /\ x.path = p)}

\* C15: a run in which the stat or the read of single files failed, and
\* nothing else, ends Completed, counts one error for each failure, and has
\* indexed every other file.
EntryFailuresCounted ==
    \A y \in 1..Len(index_runs) :
        ( /\ Ended(y) /\ y = Len(index_runs) /\ hist[y].b = Len(fslog)
          /\ hist[y].faults # {} /\ RootFaults(y) = {} )
        => /\ index_runs[y].status = COMPLETED
           /\ index_runs[y].stats.errors = Cardinality(hist[y].faults)
           /\ \A rp \in OtherFiles(y) : RowsAt(files, rp[1].path, rp[2]) # {}


\* C16: once a run has ended Failed, get_status() shows that run, as
\* last_completed or as current_run.
FailedRunExposed ==
    \A y \in 1..Len(index_runs) :
        (Ended(y) /\ index_runs[y].status = FAILED /\ index_runs[y].error # "none")
        => (GetStatus.last_completed = y \/ GetStatus.current_run = y)


\* C17: get_status().is_running is true exactly when some run is Running, and
\* current_run is then a Running run; is_running is false and current_run is
\* null when there is no run at all and when every run has ended.
StatusTellsRunning ==
    /\ GetStatus.is_running <=> (\E i \in 1..Len(index_runs) : index_runs[i].status = RUNNING)
    /\ GetStatus.is_running =>
          /\ GetStatus.current_run \in 1..Len(index_runs)
          /\ index_runs[GetStatus.current_run].status = RUNNING
    /\ ~GetStatus.is_running => GetStatus.current_run = Null

\* a newer run has ended while an older one is still Running
StatusTellsRunningWitness ==
    /\ Len(index_runs) = 2
    /\ index_runs[1].status = RUNNING
    /\ index_runs[2].status = FAILED
    /\ GetStatus.is_running
    /\ GetStatus.current_run = 1


\* C18: no two rows of files have the same root_id and rel_path, whatever
\* scans have run over whatever changes of the disk.
PathsAreUnique ==
    \A f, g \in files :
        (f.root_id = g.root_id /\ f.rel_path = g.rel_path) => f = g

\* a later rescan that found both a new file and files to write again
PathsAreUniqueWitness ==
    \E y \in 2..Len(index_runs) :
        /\ Settled(y)
        /\ index_runs[y].stats.added >= 1
        /\ index_runs[y].stats.updated >= 1
        /\ Cardinality(files) >= 3
        /\ PathsAreUnique


\* the file_ids the run before y left at other paths of the same root
OtherIdsBefore(y, f) ==
    IF hist[y].prev = Null THEN {}
    ELSE {g.file_id : g \in {h \in hist[hist[y].prev].rows :
                                h.root_id = f.root_id /\ h.rel_path # f.rel_path}}

\* C19: a file whose stat says is_offline is not hashed, not even by a forced
\* rebuild, and its record does not take over the file_id of another path.
OfflineNeverHashed ==
    \A y \in 1..Len(index_runs) : \A r \in roots : \A p \in Paths :
        disk[r.path][p].offline =>
            \A f \in ScannedRows(y, r, p) :
                /\ f.content_hash = Null
                /\ f.file_id \notin OtherIdsBefore(y, f)


\* C21: over any sequence of rebuilds a root path has at most one roots row,
\* the root_id of a path stays what it was, and no roots row goes away.
RootsAreKept ==
    /\ [](\A r, q \in roots : r.path = q.path => r = q)
    /\ [][\A r \in roots :
             \E q \in roots' : q.root_id = r.root_id /\ q.path = r.path]_vars

\* a second rescan has synced the roots the first one registered
RootsAreKeptWitness ==
    /\ Len(index_runs) = 2
    /\ hist[1].arg.root = Null /\ hist[2].arg.root = Null
    /\ run["t1"] = 2 /\ pc["t1"] = "scan"
    /\ {r.path : r \in roots} = RootDirs
    /\ Cardinality(roots) = Len(RootPaths)


FinishedIffEnded ==
    \A i \in 1..Len(index_runs) :
        (index_runs[i].finished_at = Null) <=> (index_runs[i].status = RUNNING)

\* one run was swept as stale while the other is still Running
FinishedIffEndedWitness ==
    /\ Len(index_runs) = 2
    /\ \E i, j \in 1..2 :
          /\ index_runs[i].status = CANCELLED
          /\ index_runs[i].finished_at # Null
          /\ index_runs[j].status = RUNNING
          /\ index_runs[j].finished_at = Null


\* the rows call y found whose file is on disk with another size or mtime,
\* each with the root row and the path of the file
ChangedStat(y) ==
    {<<fb, r, p>> \in hist[hist[y].prev].rows \X roots \X Paths :
        /\ r.root_id = fb.root_id /\ r.root_id \in hist[y].scanned
        /\ RelStr(p) = fb.rel_path
        /\ disk[r.path][p].ex /\ ~Hidden(p)
        /\ (disk[r.path][p].size # fb.size \/ disk[r.path][p].mtime # fb.mtime_ns)}

\* the visible files of the roots call y scanned that it found no row for
NotIndexedBefore(y) ==
    {<<r, p>> \in roots \X Paths :
        /\ r.root_id \in hist[y].scanned
        /\ disk[r.path][p].ex /\ ~Hidden(p)
        /\ \A fb \in hist[hist[y].prev].rows :
              ~(fb.root_id = r.root_id /\ fb.rel_path = RelStr(p))}

\* C24: when the size or the mtime_ns of an indexed path differs on disk from
\* the stored values, the scan writes size, mtime_ns, content_hash and
\* last_seen_at of the record the path has, keeps its file_id, adds no record
\* for the path, and counts the file as updated, not as added.
ChangedFileIsUpdated ==
    \A y \in 1..Len(index_runs) :
        (Settled(y) /\ hist[y].prev # Null /\ Done(hist[y].prev)) =>
            /\ \A c \in ChangedStat(y) :
                  LET fb == c[1]
                      stat == disk[c[2].path][c[3]]
                      rows == RowsAt(files, c[2].path, c[3])
                  IN /\ Cardinality(rows) = 1
                     /\ \A fa \in rows :
                           /\ fa.file_id = fb.file_id
                           /\ fa.size = stat.size
                           /\ fa.mtime_ns = stat.mtime
                           /\ fa.content_hash =
                                 (IF hist[y].arg.force \/ stat.size < HashSizeLimit
                                  THEN HashOf(stat.content) ELSE Null)
                           /\ fa.last_seen_at = index_runs[y].started_at
            /\ index_runs[y].stats.added = Cardinality(NotIndexedBefore(y))
            /\ ~hist[y].arg.force =>
                  index_runs[y].stats.updated = Cardinality(ChangedStat(y))

\* an unforced rebuild has completed after an indexed file was rewritten with
\* another size and mtime
ChangedFileIsUpdatedWitness ==
    \E y \in 1..Len(index_runs) :
        /\ OneChangeBefore(y)
        /\ ~hist[y].arg.force
        /\ LastOp.op = "modify"
        /\ Cardinality(ChangedStat(y)) = 1
        /\ index_runs[y].stats.updated = 1
        /\ index_runs[y].stats.added = 0
        /\ \E c \in ChangedStat(y) : c[1] \notin files


\* the roots whose directory is not on disk
MissingRoots == {r \in roots : ~RootExists(r.path)}

\* call y scanned all roots while some were missing, and nothing else went
\* wrong: fs.walk either raised for a missing root or yielded nothing
OverMissingRoot(y) ==
    /\ Ended(y) /\ y = Len(index_runs) /\ hist[y].b = Len(fslog)
    /\ hist[y].arg.root = Null
    /\ MissingRoots # {}
    /\ \A x \in hist[y].faults :
          x.kind = "walk" /\ \E r \in MissingRoots : r.root_id = x.root_id

UnknownRoot(c) ==
    /\ arg'[c].root # Null
    /\ \A r \in roots : r.root_id # arg'[c].root

\* C26: a rebuild called with a root id that roots does not have raises
\* NotFound and changes no files row; the run it created ends Failed with the
\* error in it, and no run is left Running.
UnknownRootIsNotFound ==
    /\ [][\A c \in Callers :
             (UnknownRoot(c) /\ pc'[c] # pc[c]) =>
                /\ files' = files
                /\ pc[c] = "idle" => pc'[c] = "resolve"
                /\ pc[c] # "idle" =>
                      /\ pc'[c] = "idle"
                      /\ result'[c] = "NotFound"
                      /\ index_runs'[run[c]].status = FAILED
                      /\ index_runs'[run[c]].error = "NotFound"
                      /\ index_runs'[run[c]].finished_at = now]_vars
    /\ [](Idle => RunningRuns = {})

\* a call with an unknown root id has raised NotFound
UnknownRootIsNotFoundWitness ==
    /\ Idle
    /\ result["t1"] = "NotFound"
    /\ run["t1"] = 2
    /\ hist[2].arg.root = 3
    /\ index_runs[2].status = FAILED
    /\ index_runs[2].error = "NotFound"
    /\ files = hist[1].rows


\* C27: once a rebuild has resolved its roots, whether it was called for all
\* roots or for one root id, every configured root has a roots row.
ConfiguredRootsRegistered ==
    \A c \in Callers :
        (run[c] # Null /\ pc[c] \in {"scan", "idle"})
        => \A path \in RootDirs : \E r \in roots : r.path = path


\* the rows of the roots other than rid
RowsOutside(rows, rid) == {f \in rows : f.root_id # rid}

\* C28: the scan of one root leaves every files row of any other root as it
\* was: none is inserted, updated or deleted.
ScanKeepsOtherRoots ==
    [][\A c \in Callers :
          (pc[c] = "scan" /\ todo'[c] # todo[c])
          => RowsOutside(files', Head(todo[c]).root_id)
                = RowsOutside(files, Head(todo[c]).root_id)]_vars

\* the first root has been scanned and its rows written, the rows of the
\* second root are as the run before left them
ScanKeepsOtherRootsWitness ==
    /\ pc["t1"] = "scan"
    /\ Len(todo["t1"]) = 1
    /\ hist[run["t1"]].scanned # {}
    /\ total["t1"].added + total["t1"].updated + total["t1"].removed >= 1
    /\ RowsOutside(files, Head(todo["t1"]).root_id) # RowsOutside(hist[1].rows, Head(todo["t1"]).root_id)
    /\ {f \in files : f.root_id = Head(todo["t1"]).root_id}
          = {f \in hist[1].rows : f.root_id = Head(todo["t1"]).root_id}
    /\ \E f \in files : f.root_id = Head(todo["t1"]).root_id


\* the rows of root rid that a step removes
Pruned(rid) ==
    {f \in files : f.root_id = rid /\ \A g \in files' : g.file_id # f.file_id}

\* the walk of the scan this step makes for caller c raised
WalkRaised(c) ==
    \E x \in hist'[run[c]].faults \ hist[run[c]].faults : x.kind = "walk"

\* the walk of root r meets a file at rel_path
Encountered(r, rel) ==
    \E p \in Paths : RelStr(p) = rel /\ disk[r.path][p].ex /\ ~Hidden(p)

\* C29: a scan whose walk raised deletes no files row of its root; a scan
\* deletes rows only after a walk that came to its end, and only rows whose
\* rel_path that walk did not meet.
PrunedOnlyAfterFullWalk ==
    [][\A c \in Callers :
          (pc[c] = "scan" /\ todo'[c] # todo[c]) =>
             /\ WalkRaised(c) => Pruned(Head(todo[c]).root_id) = {}
             /\ \A f \in Pruned(Head(todo[c]).root_id) :
                   ~Encountered(Head(todo[c]), f.rel_path)]_vars

\* a rescan whose walk of the first root raised has ended, and the row of a
\* file that is gone from that root is still there
PrunedOnlyAfterFullWalkWitness ==
    \E y \in 2..Len(index_runs) : \E r \in roots :
        /\ Ended(y) /\ hist[y].b = Len(fslog)
        /\ \E x \in hist[y].faults : x.kind = "walk" /\ x.root_id = r.root_id
        /\ \E f \in files : f.root_id = r.root_id /\ ~Encountered(r, f.rel_path)
        /\ index_runs[y].stats.removed = 0

\* C30: RunnerService.invoke admits one invocation at a time. While one is
\* active, every other invoke returns success = false with the error
\* 'Another runner is already active' and leaves the active flag, the
\* current runner and the progress as they are. After every admitted
\* invocation has ended - with success, with an unknown runner or with an
\* exception - status.active is false and current_runner and progress are
\* null.
OneRunnerAtATime ==
    /\ [](/\ Cardinality(Collecting) <= 1
          /\ active <=> Collecting # {}
          /\ Collecting = {} => Status = Cleared
          /\ \A i \in Collecting : current_runner = inv[i].runner_id)
    /\ [][(Len(inv') > Len(inv) /\ Collecting # {}) =>
            /\ inv'[Len(inv')] = RunnerResult(inv'[Len(inv')].runner_id, FALSE, AlreadyActive)
            /\ Status' = Status
            /\ active']_vars
    /\ [][(Len(inv') > Len(inv) /\ Collecting = {}) =>
            /\ inv'[Len(inv')].error # AlreadyActive
            /\ inv'[Len(inv')].at = "returned" => Status' = Cleared]_vars
    /\ [][\A i \in Collecting : inv'[i].at # "collect" => Status' = Cleared]_vars
OneRunnerAtATimeWitness ==
    /\ Len(inv) = 3
    /\ inv[1] = RunnerResult("other", FALSE, UnknownRunner)
    /\ inv[2].at = "collect"
    /\ inv[3] = RunnerResult("autocollector", FALSE, AlreadyActive)
    /\ Status = [active |-> TRUE, current_runner |-> "autocollector",
                 progress |-> "crawling"]

====
